---- MODULE Spec2Model ----
(***************************************************************************)
(* A model of the qr-sello scan logger (src/index.js): an Express server   *)
(* that appends one row to the SQLite table scan_logs per GET /scan and    *)
(* per POST /scan/fp, optionally sends a notification mail, and exposes    *)
(* the rows as JSON (GET /admin/logs) and as CSV (GET /admin/logs.csv).    *)
(*                                                                         *)
(* Text is modelled as a sequence of one-character strings, so that        *)
(* JSON.stringify, String() and csvEscape are computed character by        *)
(* character.  JavaScript values are tagged records.                       *)
(***************************************************************************)
EXTENDS Integers, Sequences, FiniteSets, TLC

\* ------------------------------------------------------------------ bounds
\* Number of HTTP requests the server receives in a run.
MaxReq == 2
\* In the listing model the table holds LogLimit - LogSlack .. LogLimit +
\* LogSlack rows (or none) when the process starts.
LogSlack == 1
\* Longest user-agent text in the export model (SpecCsv).
MaxLen == 4

\* ------------------------------------------------------- JavaScript values
Null == [t |-> "null"]
Undefined == [t |-> "undefined"]
Str(s) == [t |-> "str", s |-> s]
Num(n) == [t |-> "num", n |-> n]
Obj(m) == [t |-> "obj", m |-> m]

DQ == "\""
BACKSLASH == "\\"
LF == "\n"

\* JavaScript truthiness, as used by the || and ?: operators of the source.
Truthy(v) ==
  CASE v.t = "null" -> FALSE
    [] v.t = "undefined" -> FALSE
    [] v.t = "str" -> v.s # <<>>
    [] v.t = "num" -> v.n # 0
    [] OTHER -> TRUE

\* a || b
OrElse(a, b) == IF Truthy(a) THEN a ELSE b

\* Array.prototype.join: the elements of parts separated by sep.
Join(parts, sep) ==
  LET f[i \in 0..Len(parts)] ==
        IF i = 0 THEN <<>>
        ELSE IF i = 1 THEN parts[1]
        ELSE f[i - 1] \o sep \o parts[i]
  IN f[Len(parts)]

\* String.prototype.replace(/c/g, by): every occurrence of character c
\* replaced by the characters by.
ReplaceAll(s, c, by) ==
  LET f[i \in 0..Len(s)] ==
        IF i = 0 THEN <<>>
        ELSE f[i - 1] \o (IF s[i] = c THEN by ELSE <<s[i]>>)
  IN f[Len(s)]

DigitChar(d) == <<"0", "1", "2", "3", "4", "5", "6", "7", "8", "9">>[d + 1]

\* The decimal rendering of a non-negative integer.
RECURSIVE Digits(_)
Digits(n) == IF n < 10 THEN <<DigitChar(n)>>
             ELSE Digits(n \div 10) \o <<DigitChar(n % 10)>>

\* String(value) for the values a row can hold.
JsString(v) ==
  CASE v.t = "str" -> v.s
    [] v.t = "num" -> Digits(v.n)
    [] v.t = "null" -> <<"n", "u", "l", "l">>
    [] OTHER -> <<"u", "n", "d", "e", "f", "i", "n", "e", "d">>

\* JSON string quoting: backslash and double quote are backslash-escaped.
JsonQuote(s) ==
  LET f[i \in 0..Len(s)] ==
        IF i = 0 THEN <<>>
        ELSE f[i - 1] \o (IF s[i] \in {DQ, BACKSLASH} THEN <<BACKSLASH, s[i]>>
                          ELSE <<s[i]>>)
  IN <<DQ>> \o f[Len(s)] \o <<DQ>>

\* JSON.stringify of a value: null, a number, a string, or an object given
\* as the sequence of its <<key, value>> members.
RECURSIVE JSONStringify(_)
JSONStringify(v) ==
  CASE v.t = "str" -> JsonQuote(v.s)
    [] v.t = "num" -> Digits(v.n)
    [] v.t = "obj" ->
         <<"{">> \o
         Join([i \in 1..Len(v.m) |->
                 JsonQuote(v.m[i][1]) \o <<":">> \o JSONStringify(v.m[i][2])],
              <<",">>)
         \o <<"}">>
    [] OTHER -> <<"n", "u", "l", "l">>

\* ------------------------------------------------------------ HTTP inputs
UA == <<"u", "s", "e", "r", "-", "a", "g", "e", "n", "t">>
XFF == <<"x", "-", "f", "o", "r", "w", "a", "r", "d", "e", "d", "-", "f", "o", "r">>

\* obj[key] on an object given by its members; undefined when absent.
Get(obj, key) ==
  IF \E i \in 1..Len(obj.m) : obj.m[i][1] = key
  THEN obj.m[CHOOSE i \in 1..Len(obj.m) : obj.m[i][1] = key][2]
  ELSE Undefined

\* The clients that issue requests: the peer address of the socket and the
\* request headers.  The first is behind a proxy and its user agent holds a
\* double quote; the second connects directly and sends no headers.
Clients ==
  { [remoteAddress |-> Str(<<"9">>),
     headers |-> Obj(<< <<UA, Str(<<"m", DQ>>)>>, <<XFF, Str(<<"7">>)>> >>)],
    [remoteAddress |-> Str(<<"8">>),
     headers |-> Obj(<<>>)] }

\* Values of new Date().toISOString().
Times == { <<"T", "1">> }

\* Bodies a client can post: none, text that is not JSON, or JSON text
\* denoting a value.
NoBody == [k |-> "none"]
Malformed == [k |-> "malformed"]
JsonBody(v) == [k |-> "json", v |-> v]
Bodies ==
  { NoBody, Malformed,
    JsonBody(Obj(<<>>)),
    JsonBody(Obj(<< <<<<"l">>, Str(<<"e", DQ>>)>>, <<<<"w">>, Num(0)>> >>)),
    JsonBody(Num(0)) }

\* req.ip under app.set('trust proxy', true): the address the proxy
\* forwarded when there is one, the peer address otherwise.
ReqIp(c) ==
  IF Truthy(Get(c.headers, XFF)) THEN Get(c.headers, XFF) ELSE c.remoteAddress

\* ------------------------------------------------------------------ state
VARIABLES
  store,        \* table scan_logs: its rows, in insertion order
  origin,       \* history: origin[i] is the request that inserted store[i]
  dbOpen,       \* whether sqlite3 could open scanlogs.db
  mailer,       \* whether the SMTP transport was created
  expressMajor, \* major version of the installed express (4 or 5)
  alive,        \* the node process is running
  reqs,         \* history: the requests received, in order
  dbOps,        \* per request: the statement it handed to sqlite3
  mail,         \* per request: the state of its notification mail
  responses     \* per request: what was sent on its response, in order

vars == <<store, origin, dbOpen, mailer, expressMajor, alive, reqs, dbOps,
          mail, responses>>

\* ------------------------------------------------------------- the table
\* LIMIT of the listing query.
LogLimit == 100

Max(S) == CHOOSE x \in S : \A y \in S : y <= x
Min2(a, b) == IF a < b THEN a ELSE b

\* A key that is not incremented: the largest id is handed out again.
NextIdReused(rows) ==
  IF rows = <<>> THEN 1 ELSE Max({rows[i].id.n : i \in 1..Len(rows)})

\* id INTEGER PRIMARY KEY AUTOINCREMENT: one more than the largest id used.
NextId(rows) ==
  IF rows = <<>> THEN 1 ELSE 1 + Max({rows[i].id.n : i \in 1..Len(rows)})

\* INSERT OR REPLACE on a fixed key: the newest row is overwritten.
InsertRowReplacing(rows, p) ==
  LET row == [id |-> Num(Len(rows)), created_at |-> p.created_at,
              ip |-> p.ip, ip_raw |-> p.ip_raw,
              x_forwarded_for |-> p.x_forwarded_for, headers |-> p.headers,
              user_agent |-> p.user_agent, fp_data |-> p.fp_data]
  IN IF rows = <<>> THEN <<[row EXCEPT !.id = Num(1)]>>
     ELSE [rows EXCEPT ![Len(rows)] = row]

\* INSERT INTO scan_logs (...) VALUES (?, ?, ?, ?, ?, ?, ?)
InsertRow(rows, p) ==
  Append(rows, [id |-> Num(NextId(rows)), created_at |-> p.created_at,
                ip |-> p.ip, ip_raw |-> p.ip_raw,
                x_forwarded_for |-> p.x_forwarded_for, headers |-> p.headers,
                user_agent |-> p.user_agent, fp_data |-> p.fp_data])

\* ORDER BY id DESC: the k-th row is the one with k - 1 larger ids.  Rows
\* that are already in ascending id order are reversed, which is that order.
OrderByIdDesc(rows) ==
  LET n == Len(rows)
      rank == [i \in 1..n |->
                1 + Cardinality({j \in 1..n : rows[j].id.n > rows[i].id.n})]
  IN IF \A i \in 1..(n - 1) : rows[i].id.n < rows[i + 1].id.n
     THEN [k \in 1..n |-> rows[n + 1 - k]]
     ELSE [k \in 1..n |-> rows[CHOOSE i \in 1..n : rank[i] = k]]

\* The listing query without its LIMIT.
SelectRecentUnlimited(rows) == OrderByIdDesc(rows)

\* SELECT * FROM scan_logs ORDER BY id DESC LIMIT 100
SelectRecent(rows) == SubSeq(OrderByIdDesc(rows), 1, Min2(LogLimit, Len(rows)))

\* SELECT * FROM scan_logs ORDER BY id DESC
SelectAll(rows) == OrderByIdDesc(rows)

\* ------------------------------------------------------------- logScan
\* logScan binding the fingerprint object itself instead of its JSON text:
\* String() of an object is stored.
logScanUnserialized(a, now) ==
  [created_at |-> OrElse(a.createdAt, Str(now)),
   ip |-> OrElse(a.ip, Null),
   ip_raw |-> OrElse(a.ipRaw, Null),
   x_forwarded_for |-> OrElse(a.xff, Null),
   headers |-> Str(JSONStringify(OrElse(a.headers, Obj(<<>>)))),
   user_agent |-> OrElse(a.userAgent, Str(<<>>)),
   fp_data |-> IF Truthy(a.fpData)
               THEN Str(<<"[", "o", "b", "j", "e", "c", "t", " ",
                          "O", "b", "j", "e", "c", "t", "]">>)
               ELSE Null]

\* The seven values logScan binds to the INSERT statement.
logScan(a, now) ==
  [created_at |-> OrElse(a.createdAt, Str(now)),
   ip |-> OrElse(a.ip, Null),
   ip_raw |-> OrElse(a.ipRaw, Null),
   x_forwarded_for |-> OrElse(a.xff, Null),
   headers |-> Str(JSONStringify(OrElse(a.headers, Obj(<<>>)))),
   user_agent |-> OrElse(a.userAgent, Str(<<>>)),
   fp_data |-> IF Truthy(a.fpData) THEN Str(JSONStringify(a.fpData)) ELSE Null]

\* ------------------------------------------------- sendNotificationEmail
\* Nothing is sent without a transport; otherwise mailer.sendMail is
\* started and the function returns without waiting for its callback.
sendNotificationEmail(a) ==
  IF ~mailer THEN [state |-> "skipped"]
  ELSE [state |-> "pending",
        text |-> <<a.createdAt,
                   OrElse(a.ip, Str(<<"d", "e", "s", "c", "o", "n", "o",
                                      "c", "i", "d", "a">>)),
                   OrElse(a.userAgent, Str(<<>>))>>]

\* ------------------------------------------------------------------ CSV
\* csvEscape without the replace: quotes inside the value are not doubled.
csvEscapeNoDoubling(value) ==
  IF value.t \in {"null", "undefined"} THEN <<DQ, DQ>>
  ELSE <<DQ>> \o JsString(value) \o <<DQ>>

csvEscape(value) ==
  IF value.t \in {"null", "undefined"} THEN <<DQ, DQ>>
  ELSE <<DQ>> \o ReplaceAll(JsString(value), DQ, <<DQ, DQ>>) \o <<DQ>>

CsvColumns ==
  << <<"i", "d">>,
     <<"c", "r", "e", "a", "t", "e", "d", "_", "a", "t">>,
     <<"i", "p">>,
     <<"i", "p", "_", "r", "a", "w">>,
     <<"x", "_", "f", "o", "r", "w", "a", "r", "d", "e", "d", "_", "f", "o", "r">>,
     <<"u", "s", "e", "r", "_", "a", "g", "e", "n", "t">>,
     <<"f", "p", "_", "d", "a", "t", "a">> >>

\* The source writes the separator as the literal '\\n': a backslash
\* followed by the letter n.
CsvNewline == <<BACKSLASH, "n">>

CsvHeader == Join(CsvColumns, <<",">>) \o CsvNewline

CsvLine(row) ==
  Join(<<csvEscape(row.id), csvEscape(row.created_at), csvEscape(row.ip),
         csvEscape(row.ip_raw), csvEscape(row.x_forwarded_for),
         csvEscape(row.user_agent), csvEscape(row.fp_data)>>, <<",">>)

CsvDocument(rows) ==
  CsvHeader \o Join([i \in 1..Len(rows) |-> CsvLine(rows[i])], CsvNewline)

\* ------------------------------------------------------------ responses
LandingText == "Servidor activo. Usa /scan para registrar un escaneo."
ScanPage == "<!DOCTYPE html> Verificacion registrada ... fetch('/scan/fp')"
DbErrorText == "Error consultando la base de datos"
BadRequestPage == "Bad Request"

Send(status, type, body) == [status |-> status, type |-> type, body |-> body]

\* ------------------------------------------------------- express.json()
\* A body parser that lets every request through: a body it cannot parse
\* counts as no body.
JsonMiddlewareLenient(b) ==
  CASE b.k = "json" /\ b.v.t = "obj" -> [next |-> TRUE, body |-> b.v]
    [] OTHER ->
         [next |-> TRUE,
          body |-> IF expressMajor = 4 THEN Obj(<<>>) ELSE Undefined]

\* The body parser in front of every route.  Without a body the request
\* passes with req.body left at the default of the installed express ({}
\* in 4.x, undefined in 5.x); JSON text passes with req.body its value when
\* that is an object (strict mode, the default, admits objects and arrays
\* only); any other body ends the request with 400 before the route is
\* reached.
JsonMiddleware(b) ==
  CASE b.k = "none" ->
         [next |-> TRUE,
          body |-> IF expressMajor = 4 THEN Obj(<<>>) ELSE Undefined]
    [] b.k = "json" /\ b.v.t = "obj" -> [next |-> TRUE, body |-> b.v]
    [] OTHER -> [next |-> FALSE, body |-> Undefined]

\* --------------------------------------------------------------- handlers
Receive(route, b) ==
  reqs' = Append(reqs, [route |-> route, body |-> b])

\* What both logging routes read from the request, with the fingerprint.
RequestContext(c, t, fpData) ==
  [createdAt |-> Str(t),
   ip |-> ReqIp(c),
   ipRaw |-> c.remoteAddress,
   xff |-> OrElse(Get(c.headers, XFF), Null),
   headers |-> c.headers,
   userAgent |-> OrElse(Get(c.headers, UA), Str(<<>>)),
   fpData |-> fpData]

NoDbOp == [op |-> "none"]
NoMail == [state |-> "none"]

\* GET /
Landing ==
  /\ alive /\ Len(reqs) < MaxReq
  /\ Receive("GET /", NoBody)
  /\ dbOps' = Append(dbOps, NoDbOp)
  /\ mail' = Append(mail, NoMail)
  /\ responses' = Append(responses, <<Send(200, "text", LandingText)>>)
  /\ UNCHANGED <<store, origin, dbOpen, mailer, expressMajor, alive>>

\* GET /scan answering from the callback of sendMail: with a transport the
\* response waits for the mail.
ScanAwaitingMail(c, t) ==
  /\ alive /\ Len(reqs) < MaxReq
  /\ LET ctx == RequestContext(c, t, Null)
     IN /\ Receive("GET /scan", NoBody)
        /\ dbOps' = Append(dbOps, [op |-> "insert", state |-> "queued",
                                   params |-> logScan(ctx, t)])
        /\ mail' = Append(mail, sendNotificationEmail(ctx))
        /\ responses' = Append(responses,
                               IF mailer THEN <<>>
                               ELSE <<Send(200, "html", ScanPage)>>)
  /\ UNCHANGED <<store, origin, dbOpen, mailer, expressMajor, alive>>

\* GET /scan
Scan(c, t) ==
  /\ alive /\ Len(reqs) < MaxReq
  /\ LET ctx == RequestContext(c, t, Null)
     IN /\ Receive("GET /scan", NoBody)
        /\ dbOps' = Append(dbOps, [op |-> "insert", state |-> "queued",
                                   params |-> logScan(ctx, t)])
        /\ mail' = Append(mail, sendNotificationEmail(ctx))
        /\ responses' = Append(responses, <<Send(200, "html", ScanPage)>>)
  /\ UNCHANGED <<store, origin, dbOpen, mailer, expressMajor, alive>>

\* POST /scan/fp
ScanFp(c, t, b) ==
  /\ alive /\ Len(reqs) < MaxReq
  /\ Receive("POST /scan/fp", b)
  /\ mail' = Append(mail, NoMail)
  /\ LET parsed == JsonMiddleware(b)
         fpPayload == OrElse(parsed.body, Null)
         ctx == RequestContext(c, t, fpPayload)
     IN IF parsed.next
        THEN /\ dbOps' = Append(dbOps, [op |-> "insert", state |-> "queued",
                                        params |-> logScan(ctx, t)])
             /\ responses' = Append(responses, <<Send(204, "none", "")>>)
        ELSE /\ dbOps' = Append(dbOps, NoDbOp)
             /\ responses' = Append(responses,
                                    <<Send(400, "html", BadRequestPage)>>)
  /\ UNCHANGED <<store, origin, dbOpen, mailer, expressMajor, alive>>

\* GET /admin/logs: db.all is started; the response waits for its callback.
AdminLogs ==
  /\ alive /\ Len(reqs) < MaxReq
  /\ Receive("GET /admin/logs", NoBody)
  /\ dbOps' = Append(dbOps, [op |-> "recent", state |-> "queued"])
  /\ mail' = Append(mail, NoMail)
  /\ responses' = Append(responses, <<>>)
  /\ UNCHANGED <<store, origin, dbOpen, mailer, expressMajor, alive>>

\* GET /admin/logs.csv: db.all is started; the response waits for its callback.
AdminCsv ==
  /\ alive /\ Len(reqs) < MaxReq
  /\ Receive("GET /admin/logs.csv", NoBody)
  /\ dbOps' = Append(dbOps, [op |-> "all", state |-> "queued"])
  /\ mail' = Append(mail, NoMail)
  /\ responses' = Append(responses, <<>>)
  /\ UNCHANGED <<store, origin, dbOpen, mailer, expressMajor, alive>>

\* ------------------------------------------------------ sqlite3 callbacks
Queued(r, op) ==
  /\ alive /\ dbOpen
  /\ r \in 1..Len(dbOps)
  /\ dbOps[r].op = op
  /\ dbOps[r].state = "queued"

\* stmt.run succeeds: the row is appended.  No callback was given.
DbRun(r) ==
  /\ Queued(r, "insert")
  /\ store' = InsertRow(store, dbOps[r].params)
  /\ origin' = Append(origin, r)
  /\ dbOps' = [dbOps EXCEPT ![r].state = "done"]
  /\ UNCHANGED <<dbOpen, mailer, expressMajor, alive, reqs, mail, responses>>

\* stmt.run fails (SQLITE_FULL, SQLITE_BUSY, SQLITE_READONLY, ...).  No
\* callback was given, so sqlite3 emits 'error' on the statement; nothing
\* listens for it, and an unhandled 'error' event ends the process.
DbRunError(r) ==
  /\ Queued(r, "insert")
  /\ dbOps' = [dbOps EXCEPT ![r].state = "error"]
  /\ alive' = FALSE
  /\ UNCHANGED <<store, origin, dbOpen, mailer, expressMajor, reqs, mail,
                 responses>>

\* The callback of GET /admin/logs without the return in its error branch.
AdminLogsCallbackNoReturn(err, rows) ==
  IF err THEN <<Send(500, "text", DbErrorText), Send(200, "json", rows)>>
  ELSE <<Send(200, "json", rows)>>

\* What the callback of GET /admin/logs sends.
AdminLogsCallback(err, rows) ==
  IF err THEN <<Send(500, "text", DbErrorText)>>
  ELSE <<Send(200, "json", rows)>>

\* What the callback of GET /admin/logs.csv sends.
AdminCsvCallback(err, rows) ==
  IF err THEN <<Send(500, "text", DbErrorText)>>
  ELSE <<Send(200, "csv", CsvDocument(rows))>>

\* db.all of GET /admin/logs completes, with the rows or with an error.
DbAllRecent(r, err) ==
  /\ Queued(r, "recent")
  /\ dbOps' = [dbOps EXCEPT ![r].state = IF err THEN "error" ELSE "done"]
  /\ responses' = [responses EXCEPT
       ![r] = @ \o AdminLogsCallback(err, IF err THEN <<>>
                                          ELSE SelectRecent(store))]
  /\ UNCHANGED <<store, origin, dbOpen, mailer, expressMajor, alive, reqs,
                 mail>>

\* db.all of GET /admin/logs.csv completes, with the rows or with an error.
DbAllCsv(r, err) ==
  /\ Queued(r, "all")
  /\ dbOps' = [dbOps EXCEPT ![r].state = IF err THEN "error" ELSE "done"]
  /\ responses' = [responses EXCEPT
       ![r] = @ \o AdminCsvCallback(err, IF err THEN <<>>
                                         ELSE SelectAll(store))]
  /\ UNCHANGED <<store, origin, dbOpen, mailer, expressMajor, alive, reqs,
                 mail>>

\* ---------------------------------------------------- sendMail callback
\* The callback of mailer.sendMail only logs the outcome.
MailCallback(r, err) ==
  /\ alive
  /\ r \in 1..Len(mail)
  /\ mail[r].state = "pending"
  /\ mail' = [mail EXCEPT ![r].state = IF err THEN "failed" ELSE "sent"]
  /\ UNCHANGED <<store, origin, dbOpen, mailer, expressMajor, alive, reqs,
                 dbOps, responses>>

\* ---------------------------------------------------------- specification
\* After start-up: the table is empty, no request has been received.
Init ==
  /\ store = <<>>
  /\ origin = <<>>
  /\ dbOpen \in BOOLEAN
  /\ mailer \in BOOLEAN
  /\ expressMajor \in {4, 5}
  /\ alive = TRUE
  /\ reqs = <<>>
  /\ dbOps = <<>>
  /\ mail = <<>>
  /\ responses = <<>>

Next ==
  \/ Landing
  \/ \E c \in Clients, t \in Times : Scan(c, t)
  \/ \E c \in Clients, t \in Times, b \in Bodies : ScanFp(c, t, b)
  \/ AdminLogs
  \/ AdminCsv
  \/ \E r \in 1..MaxReq : DbRun(r)
  \/ \E r \in 1..MaxReq : DbRunError(r)
  \/ \E r \in 1..MaxReq, err \in BOOLEAN : DbAllRecent(r, err)
  \/ \E r \in 1..MaxReq, err \in BOOLEAN : DbAllCsv(r, err)
  \/ \E r \in 1..MaxReq, err \in BOOLEAN : MailCallback(r, err)

Spec == Init /\ [][Next]_vars

\* The listing model: the process starts on a table that earlier scans
\* filled up to about the LIMIT of the listing query.
Prefilled(n) ==
  LET c == CHOOSE x \in Clients : x.headers = Obj(<<>>)
      t == CHOOSE x \in Times : TRUE
      row == InsertRow(<<>>, logScan(RequestContext(c, t, Null), t))[1]
  IN [i \in 1..n |-> [row EXCEPT !.id = Num(i)]]

InitLogs ==
  /\ \E n \in {0} \cup ((LogLimit - LogSlack)..(LogLimit + LogSlack)) :
       /\ store = Prefilled(n)
       /\ origin = [i \in 1..n |-> 0]
  /\ dbOpen = TRUE
  /\ mailer = FALSE
  /\ expressMajor \in {4, 5}
  /\ alive = TRUE
  /\ reqs = <<>>
  /\ dbOps = <<>>
  /\ mail = <<>>
  /\ responses = <<>>

NextLogs ==
  \/ \E c \in Clients, t \in Times : Scan(c, t)
  \/ \E c \in Clients, t \in Times : ScanFp(c, t, JsonBody(Obj(<<>>)))
  \/ AdminLogs
  \/ \E r \in 1..MaxReq : DbRun(r)
  \/ \E r \in 1..MaxReq : DbRunError(r)
  \/ \E r \in 1..MaxReq, err \in BOOLEAN : DbAllRecent(r, err)

SpecLogs == InitLogs /\ [][NextLogs]_vars

\* The export model: the process starts on a table that holds the row of
\* one scan, by a client whose user agent is any text of up to MaxLen
\* characters, double quotes and commas among them.
CsvAlphabet == {"a", DQ, ","}
Texts == UNION {[1..k -> CsvAlphabet] : k \in 0..MaxLen}

InitCsv ==
  /\ \E s \in Texts, t \in Times :
       LET c == [remoteAddress |-> Str(<<"8">>),
                 headers |-> Obj(<< <<UA, Str(s)>> >>)]
       IN store = InsertRow(<<>>, logScan(RequestContext(c, t, Null), t))
  /\ origin = <<0>>
  /\ dbOpen = TRUE
  /\ mailer = FALSE
  /\ expressMajor \in {4, 5}
  /\ alive = TRUE
  /\ reqs = <<>>
  /\ dbOps = <<>>
  /\ mail = <<>>
  /\ responses = <<>>

NextCsv ==
  \/ AdminCsv
  \/ \E r \in 1..MaxReq, err \in BOOLEAN : DbAllCsv(r, err)

SpecCsv == InitCsv /\ [][NextCsv]_vars

\* ================================================================ claims
Handled == 1..Len(reqs)

\* The rows of the table that request r inserted.
RowsOf(r) == {i \in 1..Len(store) : origin[i] = r}

NoContent == <<Send(204, "none", "")>>

\* The JSON text of each fingerprint object the clients post, written out.
SerializedBody(b) ==
  IF b.v = Obj(<<>>) THEN <<"{", "}">>
  ELSE <<"{", DQ, "l", DQ, ":", DQ, "e", BACKSLASH, DQ, DQ, ",",
         DQ, "w", DQ, ":", "0", "}">>

\* C1: every GET /scan hands exactly one INSERT to the store; when the
\* store has executed it, the table holds exactly one row of that request
\* (none before, and none if the write failed), the row's fp_data is NULL,
\* and its id is greater than the id of every row inserted before it.
ScanPersistsOneRecord ==
  \A r \in Handled :
    reqs[r].route = "GET /scan" =>
      /\ dbOps[r].op = "insert"
      /\ Cardinality(RowsOf(r)) = IF dbOps[r].state = "done" THEN 1 ELSE 0
      /\ \A i \in RowsOf(r) :
           /\ store[i].fp_data = Null
           /\ \A j \in 1..(i - 1) : store[j].id.n < store[i].id.n

\* C1 witness: a scan's row was written after an earlier row.
ScanRecordAfterEarlier ==
  \E r \in Handled :
    /\ reqs[r].route = "GET /scan"
    /\ dbOps[r].state = "done"
    /\ \E i \in RowsOf(r) : i > 1

\* C2: every POST /scan/fp whose body is a JSON object is answered 204
\* without a body and hands exactly one INSERT to the store; when the store
\* has executed it, the table holds exactly one row of that request, whose
\* fp_data is the JSON text of the posted object.
FingerprintPersisted ==
  \A r \in Handled :
    (/\ reqs[r].route = "POST /scan/fp"
     /\ reqs[r].body.k = "json"
     /\ reqs[r].body.v.t = "obj") =>
      /\ responses[r] = NoContent
      /\ dbOps[r].op = "insert"
      /\ Cardinality(RowsOf(r)) = IF dbOps[r].state = "done" THEN 1 ELSE 0
      /\ \A i \in RowsOf(r) :
           store[i].fp_data = Str(SerializedBody(reqs[r].body))

\* C2 witness: a posted object with members has been written.
FingerprintWritten ==
  \E r \in Handled :
    /\ reqs[r].route = "POST /scan/fp"
    /\ reqs[r].body.k = "json"
    /\ reqs[r].body.v.t = "obj"
    /\ reqs[r].body.v.m # <<>>
    /\ RowsOf(r) # {}

\* The step in which the db.all of request r, of kind op, returns rows.
ReturnsRows(r, op) ==
  /\ dbOps[r].op = op
  /\ dbOps[r].state = "queued"
  /\ dbOps'[r].state = "done"

\* C3: whenever the query of GET /admin/logs returns, the response is one
\* 200 JSON array of at most 100 rows, in strictly descending id order, and
\* they are the rows of the table with the highest ids: min(100, size of
\* the table) rows of it, every other row having a smaller id.
RecentLogsNewestFirst ==
  [][\A r \in 1..Len(dbOps) :
       ReturnsRows(r, "recent") =>
         /\ Len(responses'[r]) = 1
         /\ responses'[r][1].status = 200
         /\ responses'[r][1].type = "json"
         /\ LET rows == responses'[r][1].body
                sent == {rows[k] : k \in 1..Len(rows)}
                kept == {store[i] : i \in 1..Len(store)}
            IN /\ Len(rows) <= LogLimit
               /\ Len(rows) = Min2(LogLimit, Len(store))
               /\ \A k \in 1..(Len(rows) - 1) :
                    rows[k].id.n > rows[k + 1].id.n
               /\ sent \subseteq kept
               /\ \A x \in kept \ sent : \A y \in sent : x.id.n < y.id.n
    ]_vars

\* C3 witness: a listing of exactly 100 rows was returned from a table
\* that holds more.
ListingTruncated ==
  \E r \in Handled :
    /\ reqs[r].route = "GET /admin/logs"
    /\ dbOps[r].state = "done"
    /\ Len(responses[r][1].body) = LogLimit
    /\ Len(store) > LogLimit

\* C4: every GET /scan is answered, in the step that handles it, with the
\* same 200 HTML page, whatever becomes of its notification: skipped for
\* want of a transport, still in flight, sent, or failed.
ScanResponseIgnoresNotifier ==
  \A r \in Handled :
    reqs[r].route = "GET /scan" =>
      /\ responses[r] = <<Send(200, "html", ScanPage)>>
      /\ mail[r].state \in {"skipped", "pending", "sent", "failed"}

\* C4 witness: one scan whose mail failed and one whose mail is still in
\* flight have both been answered.
ScanAnsweredMailFailedAndPending ==
  \E r1, r2 \in Handled :
    /\ reqs[r1].route = "GET /scan" /\ mail[r1].state = "failed"
    /\ reqs[r2].route = "GET /scan" /\ mail[r2].state = "pending"
    /\ responses[r1] # <<>> /\ responses[r2] # <<>>

\* C5: when the read of GET /admin/logs or GET /admin/logs.csv fails, the
\* request is answered with 500 and the plain-text message and with nothing
\* else; no request is ever answered twice.
ReadFailureAnswered500Once ==
  /\ \A r \in Handled : Len(responses[r]) <= 1
  /\ \A r \in Handled :
       (/\ reqs[r].route \in {"GET /admin/logs", "GET /admin/logs.csv"}
        /\ dbOps[r].state = "error") =>
         responses[r] = <<Send(500, "text", DbErrorText)>>

\* C5 witness: the read failed for a listing and for an export.
BothReadsFailed ==
  \E r1, r2 \in Handled :
    /\ reqs[r1].route = "GET /admin/logs" /\ dbOps[r1].state = "error"
    /\ reqs[r2].route = "GET /admin/logs.csv" /\ dbOps[r2].state = "error"

ReadOnlyRoutes == {"GET /", "GET /admin/logs", "GET /admin/logs.csv"}

\* A step that receives a request of a read-only route, or that completes
\* the query of one.
ReadOnlyStep ==
  \/ /\ Len(reqs') > Len(reqs)
     /\ reqs'[Len(reqs')].route \in ReadOnlyRoutes
  \/ \E r \in 1..Len(dbOps) :
       /\ reqs[r].route \in ReadOnlyRoutes
       /\ dbOps'[r] # dbOps[r]

\* C6: in every step the table keeps every row it has, unchanged and in
\* place; its ids are pairwise different and increase in insertion order;
\* and the steps of GET /, GET /admin/logs and GET /admin/logs.csv leave
\* the table as it is.
AppendOnly ==
  [][/\ Len(store') >= Len(store)
     /\ \A i \in 1..Len(store) : store'[i] = store[i]
     /\ \A i, j \in 1..Len(store') :
          i < j => store'[i].id.n < store'[j].id.n
     /\ ReadOnlyStep => store' = store
    ]_vars

\* C6 witness: the table holds two rows.
TwoRowsStored == Len(store) = 2

\* The lines of a text: its pieces between line feeds, a final line feed
\* ending the last line.
Lines(text) ==
  LET breaks == {i \in 1..Len(text) : text[i] = LF} \cup {Len(text) + 1}
      n == Cardinality(breaks)
      nth == [k \in 1..n |->
                CHOOSE b \in breaks :
                  Cardinality({x \in breaks : x < b}) = k - 1]
      all == [k \in 1..n |->
                SubSeq(text, IF k = 1 THEN 1 ELSE nth[k - 1] + 1, nth[k] - 1)]
  IN IF all[n] = <<>> THEN SubSeq(all, 1, n - 1) ELSE all

\* C7: whenever the query of GET /admin/logs.csv returns, the document sent
\* is the header line id,created_at,ip,ip_raw,x_forwarded_for,user_agent,
\* fp_data followed by one line per row of the table, newest first, each
\* line the row's seven quoted fields in header order; without rows it is
\* the header line alone.
CsvExportIsHeaderAndRows ==
  [][\A r \in 1..Len(dbOps) :
       ReturnsRows(r, "all") =>
         LET rows == SelectAll(store)
         IN Lines(responses'[r][1].body) =
              <<Join(CsvColumns, <<",">>)>>
              \o [k \in 1..Len(rows) |-> CsvLine(rows[k])]
    ]_vars

WriteFailureSwallowed ==
  \A r \in Handled :
    (dbOps[r].op = "insert" /\ dbOps[r].state = "error") =>
      /\ responses[r] \in {<<Send(200, "html", ScanPage)>>, NoContent}
      /\ RowsOf(r) = {}
      /\ alive

\* A CSV field read back: the text between the outer quotes with every
\* doubled quote collapsed; not ok when the outer quotes are missing or a
\* quote inside stands alone.
Unescape(field) ==
  LET n == Len(field)
      inner == SubSeq(field, 2, n - 1)
      g[i \in 0..Len(inner)] ==
        IF i = 0 THEN [ok |-> TRUE, half |-> FALSE, s |-> <<>>]
        ELSE LET p == g[i - 1]
             IN IF inner[i] = DQ
                THEN IF p.half
                     THEN [p EXCEPT !.half = FALSE, !.s = Append(@, DQ)]
                     ELSE [p EXCEPT !.half = TRUE]
                ELSE IF p.half THEN [p EXCEPT !.ok = FALSE, !.half = FALSE]
                     ELSE [p EXCEPT !.s = Append(@, inner[i])]
      end == g[Len(inner)]
  IN IF n < 2 \/ field[1] # DQ \/ field[n] # DQ
     THEN [ok |-> FALSE, s |-> <<>>]
     ELSE [ok |-> end.ok /\ ~end.half, s |-> end.s]

\* The values of a row that the export writes.
ExportedValues(row) ==
  {row.id, row.created_at, row.ip, row.ip_raw, row.x_forwarded_for,
   row.user_agent, row.fp_data}

\* C10: for every value stored in an exported column, the field csvEscape
\* emits is the value's text between two quotes, one character longer for
\* every quote in the text, and reading it back by the doubled-quote rule
\* gives the value's text.
CsvFieldRoundTrips ==
  \A i \in 1..Len(store) :
    \A v \in ExportedValues(store[i]) \ {Null} :
      LET text == JsString(v)
          field == csvEscape(v)
      IN /\ Len(field) =
              Len(text) + 2 + Cardinality({k \in 1..Len(text) : text[k] = DQ})
         /\ Unescape(field) = [ok |-> TRUE, s |-> text]

\* C10 witness: a row whose user agent holds a double quote has been
\* exported.
QuotedValueExported ==
  /\ \E i \in 1..Len(store) :
       \E k \in 1..Len(store[i].user_agent.s) : store[i].user_agent.s[k] = DQ
  /\ \E r \in Handled :
       /\ reqs[r].route = "GET /admin/logs.csv"
       /\ dbOps[r].state = "done"

====
